---- MODULE Spec2Model ----
(***************************************************************************)
(* Model of the attendance-server gateway (src/index.js, the variant of    *)
(* lines 48-228): the Express pipeline authenticate -> authorizeRole ->    *)
(* handler over a Firestore "users" collection and the Firebase Auth user  *)
(* list.  A request is a process whose position is the await it is parked  *)
(* on; one action resumes one await and runs the synchronous code up to    *)
(* the next await or to the response.  The store and the verifier answer   *)
(* every call; outside SpecFault the only errors are the ones their        *)
(* contracts define: an unverifiable token, a duplicate e-mail, an update  *)
(* of a missing document.  SpecFault lets any pending await reject.        *)
(***************************************************************************)
EXTENDS Integers, Sequences, FiniteSets, TLC

VARIABLES accounts, authUsers, clock, reqs

vars == <<accounts, authUsers, clock, reqs>>

\* Number of request slots of the concurrent specifications.
NReq == 3

Req == 1..NReq

(***************************************************************************)
(* Strings that the code parses are sequences of characters.               *)
(***************************************************************************)
BearerSp == <<"B", "e", "a", "r", "e", "r", " ">>

Hdr(s) == [present |-> TRUE, text |-> s]

NoHeader == [present |-> FALSE, text |-> <<>>]

Undefined == [defined |-> FALSE, text |-> <<>>]

Str(s) == [defined |-> TRUE, text |-> s]

\* String.prototype.startsWith
StartsWith(s, p) == Len(p) <= Len(s) /\ SubSeq(s, 1, Len(p)) = p

\* String.prototype.indexOf from position i (1-based), 0 when absent
RECURSIVE IndexOf(_, _, _)
IndexOf(s, sep, i) ==
    IF i + Len(sep) - 1 > Len(s) THEN 0
    ELSE IF SubSeq(s, i, i + Len(sep) - 1) = sep THEN i
    ELSE IndexOf(s, sep, i + 1)

\* String.prototype.split with a non-empty separator
RECURSIVE Split(_, _)
Split(s, sep) ==
    LET i == IndexOf(s, sep, 1)
    IN  IF i = 0 THEN <<s>>
        ELSE <<SubSeq(s, 1, i - 1)>> \o Split(SubSeq(s, i + Len(sep), Len(s)), sep)

\* req.headers.authorization?.split("Bearer ")[1]
IdToken(h) ==
    IF ~h.present THEN Undefined
    ELSE LET parts == Split(h.text, BearerSp)
         IN  IF Len(parts) >= 2 THEN Str(parts[2]) ELSE Undefined

\* JavaScript falsiness of an optional string
Falsy(t) == ~t.defined \/ t.text = <<>>

(***************************************************************************)
(* Subjects.  A is the initial admin, U2 a teacher, U3 a student, G an     *)
(* auth user with no account document, N1 the uid Firebase Auth gives the  *)
(* user created for the e-mail "e1".                                       *)
(***************************************************************************)
Uids == {"A", "U2", "U3", "G", "N1"}

NoUser == "none"

\* admin.auth().verifyIdToken: the uid of a trusted token, NoUser when it throws
TokenUid(tok) ==
    CASE tok = <<"a">> -> "A"
      [] tok = <<"b">> -> "U2"
      [] tok = <<"c">> -> "U3"
      [] tok = <<"g">> -> "G"
      [] OTHER -> NoUser

\* the uid of the auth user registered for an e-mail
UidOfEmail(e) ==
    CASE e = "a@x" -> "A"
      [] e = "u2@x" -> "U2"
      [] e = "u3@x" -> "U3"
      [] e = "g@x" -> "G"
      [] OTHER -> "N1"

NoDoc == [exists |-> FALSE, email |-> "", role |-> "", createdAt |-> 0]

Doc(e, role, t) == [exists |-> TRUE, email |-> e, role |-> role, createdAt |-> t]

\* an adminExists whose query never finds an admin
adminExists_Never(acc) == FALSE

\* db.collection("users").where("role", "==", "admin").get(), !snapshot.empty
adminExists(acc) == \E u \in Uids : acc[u].exists /\ acc[u].role = "admin"

Admins(acc) == {u \in Uids : acc[u].exists /\ acc[u].role = "admin"}

(***************************************************************************)
(* Requests.                                                               *)
(***************************************************************************)
Routes == {"createUser", "setRole", "profile", "teacherDash", "studentDash"}

\* the role argument of authorizeRole(...) on each route
RequiredRole(route) ==
    CASE route = "createUser" -> "admin"
      [] route = "setRole" -> "admin"
      [] route = "teacherDash" -> "teacher"
      [] route = "studentDash" -> "student"
      [] OTHER -> ""

NoBody == [email |-> "", password |-> "", uid |-> "", role |-> ""]

\* the payload of a response that carries no account data
NoData == [uid |-> NoUser, doc |-> NoDoc]

IdleReq ==
    [pc |-> "idle", stage |-> "none", route |-> "none", hdr |-> NoHeader,
     user |-> NoUser, body |-> NoBody, status |-> 0, error |-> "", data |-> NoData]

\* res.status(code).json({error: err}) sent by the pipeline element st
Respond(q, st, code, err) ==
    [q EXCEPT !.pc = "done", !.stage = st, !.status = code, !.error = err]

Init ==
    /\ accounts = [u \in Uids |->
                      CASE u = "A" -> Doc("a@x", "admin", 0)
                        [] u = "U2" -> Doc("u2@x", "teacher", 0)
                        [] u = "U3" -> Doc("u3@x", "student", 0)
                        [] OTHER -> NoDoc]
    /\ authUsers = {"A", "U2", "U3", "G"}
    /\ clock = 1
    /\ reqs = [r \in Req |-> IdleReq]

(***************************************************************************)
(* The pipeline, element by element.  Each operator gives the request      *)
(* record after one resumption: the code from one await to the next.       *)
(***************************************************************************)

\* authenticate, up to the await of verifyIdToken
authenticate(q) ==
    IF Falsy(IdToken(q.hdr))
    THEN Respond(q, "authenticate", 401, "No token provided")
    ELSE [q EXCEPT !.pc = "verifyIdToken", !.stage = "authenticate"]

\* the first await of the element next() hands the request to
nextAfterAuthenticate(q) ==
    IF q.route = "profile"
    THEN [q EXCEPT !.pc = "profileGet", !.stage = "handler"]
    ELSE [q EXCEPT !.pc = "authzGet", !.stage = "authorizeRole"]

\* authenticate, from the answer of verifyIdToken on
verified(q) ==
    LET uid == TokenUid(IdToken(q.hdr).text)
    IN  IF uid = NoUser
        THEN Respond(q, "authenticate", 401, "Invalid or expired token")
        ELSE nextAfterAuthenticate([q EXCEPT !.user = uid])

\* POST /createUser, up to its first await
createUserEntry(q) ==
    IF q.body.email = "" \/ q.body.password = "" \/ q.body.role = ""
    THEN Respond(q, "handler", 400, "Email, password, and role are required")
    ELSE IF q.body.role = "admin"
    THEN [q EXCEPT !.pc = "adminExists", !.stage = "handler"]
    ELSE [q EXCEPT !.pc = "getUserByEmail", !.stage = "handler"]

\* POST /setRole, up to its first await
setRoleEntry(q) ==
    IF q.body.uid = "" \/ q.body.role = ""
    THEN Respond(q, "handler", 400, "uid and role required")
    ELSE IF q.body.role = "admin"
    THEN [q EXCEPT !.pc = "adminExists", !.stage = "handler"]
    ELSE [q EXCEPT !.pc = "update", !.stage = "handler"]

\* the handler of the route, entered by authorizeRole's next()
handlerEntry(q) ==
    CASE q.route = "createUser" -> createUserEntry(q)
      [] q.route = "setRole" -> setRoleEntry(q)
      [] OTHER -> Respond(q, "handler", 200, "")

\* authorizeRole that checks only that the caller has a document
authorizeRole_NoRoleCheck(q, acc) ==
    IF ~acc[q.user].exists
    THEN Respond(q, "authorizeRole", 403, "Not authorized")
    ELSE handlerEntry(q)

\* authorizeRole that lets an admin into every role-gated route
authorizeRole_AdminBypass(q, acc) ==
    LET userDoc == acc[q.user]
    IN  IF ~userDoc.exists
        THEN Respond(q, "authorizeRole", 403, "Not authorized")
        ELSE IF userDoc.role # RequiredRole(q.route) /\ userDoc.role # "admin"
        THEN Respond(q, "authorizeRole", 403, "Not authorized")
        ELSE handlerEntry(q)

\* authorizeRole that opens the admin routes to every account while no admin exists
authorizeRole_BootstrapWhenNoAdmin(q, acc) ==
    LET userDoc == acc[q.user]
    IN  IF ~userDoc.exists
        THEN Respond(q, "authorizeRole", 403, "Not authorized")
        ELSE IF userDoc.role # RequiredRole(q.route)
                /\ ~(RequiredRole(q.route) = "admin" /\ ~adminExists(acc))
        THEN Respond(q, "authorizeRole", 403, "Not authorized")
        ELSE handlerEntry(q)

\* authorizeRole(role), from the answer of the get of the caller's document on
authorizeRole(q, acc) ==
    LET userDoc == acc[q.user]
    IN  IF ~userDoc.exists
        THEN Respond(q, "authorizeRole", 403, "Not authorized")
        ELSE IF userDoc.role # RequiredRole(q.route)
        THEN Respond(q, "authorizeRole", 403, "Not authorized")
        ELSE handlerEntry(q)

\* POST /createUser, from the answer of adminExists on
createUserGuard(q, acc) ==
    IF adminExists(acc)
    THEN Respond(q, "handler", 403, "Only one admin is allowed")
    ELSE [q EXCEPT !.pc = "getUserByEmail"]

\* setRoleGuard that lets a grant through when its target is already admin
setRoleGuard_IdempotentRegrant(q, acc) ==
    IF adminExists(acc) /\ ~(acc[q.body.uid].exists /\ acc[q.body.uid].role = "admin")
    THEN Respond(q, "handler", 403, "An admin already exists")
    ELSE [q EXCEPT !.pc = "update"]

\* setRoleGuard without the guard: the role is written whatever adminExists answers
setRoleGuard_Unguarded(q, acc) ==
    [q EXCEPT !.pc = "update"]

\* POST /setRole, from the answer of adminExists on
setRoleGuard(q, acc) ==
    IF adminExists(acc)
    THEN Respond(q, "handler", 403, "An admin already exists")
    ELSE [q EXCEPT !.pc = "update"]

\* POST /createUser, from the answer of getUserByEmail on
createUserLookup(q, users) ==
    IF UidOfEmail(q.body.email) \in users
    THEN Respond(q, "handler", 400, "This email is already registered!")
    ELSE [q EXCEPT !.pc = "createUser"]

(***************************************************************************)
(* Actions: one per resumption.                                            *)
(***************************************************************************)

\* a request arrives in slot r and authenticate runs to its first await
Receive(r, route, hdr, body) ==
    /\ reqs' = [reqs EXCEPT ![r] =
                   authenticate([IdleReq EXCEPT !.route = route, !.hdr = hdr,
                                                !.body = body])]
    /\ UNCHANGED <<accounts, authUsers, clock>>

VerifyIdToken(r) ==
    /\ reqs[r].pc = "verifyIdToken"
    /\ reqs' = [reqs EXCEPT ![r] = verified(reqs[r])]
    /\ UNCHANGED <<accounts, authUsers, clock>>

AuthorizeRole(r) ==
    /\ reqs[r].pc = "authzGet"
    /\ reqs' = [reqs EXCEPT ![r] = authorizeRole(reqs[r], accounts)]
    /\ UNCHANGED <<accounts, authUsers, clock>>

\* AdminExists of a createUser that created the auth user before asking the guard
AdminExists_CreateFirst(r) ==
    /\ reqs[r].pc = "adminExists"
    /\ reqs' = [reqs EXCEPT ![r] =
                   IF reqs[r].route = "createUser"
                   THEN createUserGuard(reqs[r], accounts)
                   ELSE setRoleGuard(reqs[r], accounts)]
    /\ authUsers' = IF reqs[r].route = "createUser"
                    THEN authUsers \cup {UidOfEmail(reqs[r].body.email)}
                    ELSE authUsers
    /\ UNCHANGED <<accounts, clock>>

AdminExists(r) ==
    /\ reqs[r].pc = "adminExists"
    /\ reqs' = [reqs EXCEPT ![r] =
                   IF reqs[r].route = "createUser"
                   THEN createUserGuard(reqs[r], accounts)
                   ELSE setRoleGuard(reqs[r], accounts)]
    /\ UNCHANGED <<accounts, authUsers, clock>>

GetUserByEmail(r) ==
    /\ reqs[r].pc = "getUserByEmail"
    /\ reqs' = [reqs EXCEPT ![r] = createUserLookup(reqs[r], authUsers)]
    /\ UNCHANGED <<accounts, authUsers, clock>>

\* admin.auth().createUser answers: a new user, or auth/email-already-exists
CreateAuthUser(r) ==
    /\ reqs[r].pc = "createUser"
    /\ LET uid == UidOfEmail(reqs[r].body.email)
       IN  IF uid \in authUsers
           THEN /\ reqs' = [reqs EXCEPT ![r] =
                       Respond(reqs[r], "handler", 400,
                               "This email is already registered!")]
                /\ UNCHANGED authUsers
           ELSE /\ authUsers' = authUsers \cup {uid}
                /\ reqs' = [reqs EXCEPT ![r].pc = "set"]
    /\ UNCHANGED <<accounts, clock>>

\* db.collection("users").doc(userRecord.uid).set({email, role, createdAt})
SetDoc(r) ==
    /\ reqs[r].pc = "set"
    /\ accounts' = [accounts EXCEPT ![UidOfEmail(reqs[r].body.email)] =
                       Doc(reqs[r].body.email, reqs[r].body.role, clock)]
    /\ clock' = clock + 1
    /\ reqs' = [reqs EXCEPT ![r] = Respond(reqs[r], "handler", 201, "")]
    /\ UNCHANGED authUsers

\* UpdateRole with set({role}) in place of update({role}): the document is replaced
UpdateRole_Set(r) ==
    /\ reqs[r].pc = "update"
    /\ accounts' = [accounts EXCEPT ![reqs[r].body.uid] = Doc("", reqs[r].body.role, 0)]
    /\ reqs' = [reqs EXCEPT ![r] = Respond(reqs[r], "handler", 200, "")]
    /\ UNCHANGED <<authUsers, clock>>

\* db.collection("users").doc(uid).update({role}): fails on a missing document
UpdateRole(r) ==
    /\ reqs[r].pc = "update"
    /\ IF accounts[reqs[r].body.uid].exists
       THEN /\ accounts' = [accounts EXCEPT ![reqs[r].body.uid].role = reqs[r].body.role]
            /\ reqs' = [reqs EXCEPT ![r] = Respond(reqs[r], "handler", 200, "")]
       ELSE /\ reqs' = [reqs EXCEPT ![r] =
                   Respond(reqs[r], "handler", 500, "No document to update")]
            /\ UNCHANGED accounts
    /\ UNCHANGED <<authUsers, clock>>

\* profile that treats a caller without a document as authorizeRole does
profile_Forbidden(q, acc) ==
    IF ~acc[q.user].exists
    THEN Respond(q, "handler", 403, "Not authorized")
    ELSE [Respond(q, "handler", 200, "") EXCEPT
              !.data = [uid |-> q.user, doc |-> acc[q.user]]]

\* GET /profile, from the answer of the get of the caller's document on:
\* res.json({uid: req.user.uid, ...userDoc.data()})
profile(q, acc) ==
    IF ~acc[q.user].exists
    THEN Respond(q, "handler", 404, "User not found")
    ELSE [Respond(q, "handler", 200, "") EXCEPT
              !.data = [uid |-> q.user, doc |-> acc[q.user]]]

GetProfile(r) ==
    /\ reqs[r].pc = "profileGet"
    /\ reqs' = [reqs EXCEPT ![r] = profile(reqs[r], accounts)]
    /\ UNCHANGED <<accounts, authUsers, clock>>

(***************************************************************************)
(* Spec: concurrent administration.  Up to NReq requests of the admin's    *)
(* client (POST /createUser, POST /setRole, valid token of A) run          *)
(* interleaved at their awaits.                                            *)
(***************************************************************************)
AdminBodies(route) ==
    IF route = "createUser"
    THEN {[NoBody EXCEPT !.email = "e1", !.password = "pw", !.role = ro] :
              ro \in {"admin", "teacher"}}
    ELSE {[NoBody EXCEPT !.uid = u, !.role = ro] :
              u \in {"A", "U2", "U3"}, ro \in {"admin", "teacher"}}

ReceiveAdminOp(r) ==
    /\ reqs[r].pc = "idle"
    /\ \E route \in {"createUser", "setRole"} :
         \E body \in AdminBodies(route) :
            Receive(r, route, Hdr(BearerSp \o <<"a">>), body)

Next ==
    \E r \in Req :
        \/ ReceiveAdminOp(r)
        \/ VerifyIdToken(r)
        \/ AuthorizeRole(r)
        \/ AdminExists(r)
        \/ GetUserByEmail(r)
        \/ CreateAuthUser(r)
        \/ SetDoc(r)
        \/ UpdateRole(r)

Spec == Init /\ [][Next]_vars

(***************************************************************************)
(* SpecPipeline: the whole pipeline under every kind of request.  Any      *)
(* client sends any route with any Authorization header and body.  The    *)
(* requests are served one at a time: PipeReq is the one connection, which *)
(* takes its next request when the previous one has been answered.         *)
(***************************************************************************)
PipeReq == {1}

Headers ==
    {NoHeader,
     Hdr(BearerSp \o <<"a">>), Hdr(BearerSp \o <<"b">>), Hdr(BearerSp \o <<"c">>),
     Hdr(BearerSp \o <<"g">>), Hdr(BearerSp \o <<"x">>),
     Hdr(BearerSp),
     Hdr(<<"B", "a", "s", "i", "c", " ", "a">>),
     Hdr(<<"X", " ">> \o BearerSp \o <<"a">>)}

Bodies(route) ==
    CASE route = "createUser" ->
            {[NoBody EXCEPT !.email = e, !.password = pw, !.role = ro] :
                e \in {"", "e1", "a@x"}, pw \in {"", "pw"},
                ro \in {"", "admin", "teacher", "janitor"}}
      [] route = "setRole" ->
            {[NoBody EXCEPT !.uid = u, !.role = ro] :
                u \in {"", "A", "U2", "G"},
                ro \in {"", "admin", "teacher", "student", "janitor"}}
      [] OTHER -> {NoBody}

ReceiveAny(r) ==
    /\ reqs[r].pc \in {"idle", "done"}
    /\ \E route \in Routes : \E hdr \in Headers : \E body \in Bodies(route) :
          Receive(r, route, hdr, body)

NextPipeline ==
    \E r \in PipeReq :
        \/ ReceiveAny(r)
        \/ VerifyIdToken(r)
        \/ AuthorizeRole(r)
        \/ AdminExists(r)
        \/ GetUserByEmail(r)
        \/ CreateAuthUser(r)
        \/ SetDoc(r)
        \/ UpdateRole(r)
        \/ GetProfile(r)

SpecPipeline == Init /\ [][NextPipeline]_vars

(***************************************************************************)
(* SpecAuth: authenticate alone, on two requests side by side, each with   *)
(* any Authorization header.  It stops where authenticate hands over.      *)
(***************************************************************************)
AuthReq == {1, 2}

ReceiveHeader(r) ==
    /\ reqs[r].pc = "idle"
    /\ \E route \in Routes : \E hdr \in Headers :
          Receive(r, route, hdr, NoBody)

NextAuth ==
    \E r \in AuthReq :
        \/ ReceiveHeader(r)
        \/ VerifyIdToken(r)

SpecAuth == Init /\ [][NextAuth]_vars

(***************************************************************************)
(* SpecAuthStartsWith: the same two requests under the authenticate of the *)
(* file's last variant (lines 346-367), which tests the header with        *)
(* startsWith("Bearer ") before it splits it.  Its code after the await is *)
(* that of the other variants.                                             *)
(***************************************************************************)
authenticateStartsWith(q) ==
    IF ~q.hdr.present \/ ~StartsWith(q.hdr.text, BearerSp)
    THEN Respond(q, "authenticate", 401, "Missing token")
    ELSE [q EXCEPT !.pc = "verifyIdToken", !.stage = "authenticate"]

ReceiveHeaderStartsWith(r) ==
    /\ reqs[r].pc = "idle"
    /\ \E route \in Routes : \E hdr \in Headers :
          reqs' = [reqs EXCEPT ![r] =
                      authenticateStartsWith([IdleReq EXCEPT !.route = route,
                                                             !.hdr = hdr])]
    /\ UNCHANGED <<accounts, authUsers, clock>>

NextAuthStartsWith ==
    \E r \in AuthReq :
        \/ ReceiveHeaderStartsWith(r)
        \/ VerifyIdToken(r)

SpecAuthStartsWith == Init /\ [][NextAuthStartsWith]_vars

(***************************************************************************)
(* SpecGrant: the admin-grant race.  No account holds admin (A, the admin  *)
(* that authorized the requests, has since been demoted) and every slot    *)
(* holds an admin grant that is past authenticate and authorizeRole and    *)
(* waits for the answer of adminExists.                                    *)
(***************************************************************************)
GrantBodies(route) ==
    IF route = "createUser"
    THEN {[NoBody EXCEPT !.email = "e1", !.password = "pw", !.role = "admin"]}
    ELSE {[NoBody EXCEPT !.uid = u, !.role = "admin"] : u \in {"U2", "U3"}}

GrantInFlight ==
    {[IdleReq EXCEPT !.pc = "adminExists", !.stage = "handler", !.route = route,
                     !.hdr = Hdr(BearerSp \o <<"a">>), !.user = "A", !.body = body] :
        route \in {"createUser", "setRole"}, body \in GrantBodies("createUser") \cup GrantBodies("setRole")}

InitGrant ==
    /\ accounts = [u \in Uids |->
                      CASE u = "A" -> Doc("a@x", "teacher", 0)
                        [] u = "U2" -> Doc("u2@x", "teacher", 0)
                        [] u = "U3" -> Doc("u3@x", "student", 0)
                        [] OTHER -> NoDoc]
    /\ authUsers = {"A", "U2", "U3", "G"}
    /\ clock = 1
    /\ reqs \in [Req -> {q \in GrantInFlight : q.body \in GrantBodies(q.route)}]

NextGrant ==
    \E r \in Req :
        \/ AdminExists(r)
        \/ GetUserByEmail(r)
        \/ CreateAuthUser(r)
        \/ SetDoc(r)
        \/ UpdateRole(r)

SpecGrant == InitGrant /\ [][NextGrant]_vars

(***************************************************************************)
(* SpecFault: the pipeline when the verifier and the store may fail.  Any  *)
(* pending await may reject instead of resolving; the code's catch blocks  *)
(* decide what the request does then.  Two requests run side by side.  An  *)
(* await that has been issued is eventually settled and its continuation   *)
(* run by the event loop (weak fairness of each request's resumption).     *)
(***************************************************************************)
FaultReq == {1, 2}

\* a catch block that logs the error and sends nothing
rejected_NoResponse(q) == [q EXCEPT !.pc = "hung"]

\* the request after its pending await rejects: the catch block that takes it
rejected(q) ==
    CASE q.pc = "verifyIdToken" ->
            Respond(q, "authenticate", 401, "Invalid or expired token")
      [] q.pc = "authzGet" ->
            Respond(q, "authorizeRole", 500, "Server error")
      [] q.pc = "getUserByEmail" ->
            [q EXCEPT !.pc = "createUser"]
      [] q.pc \in {"adminExists", "createUser", "set"} /\ q.route = "createUser" ->
            Respond(q, "handler", 500, "Internal Server Error")
      [] OTHER ->
            Respond(q, "handler", 500, "store unavailable")

AwaitRejects(r) ==
    /\ reqs[r].pc \notin {"idle", "done", "hung"}
    /\ reqs' = [reqs EXCEPT ![r] = rejected(reqs[r])]
    /\ UNCHANGED <<accounts, authUsers, clock>>

FaultHeaders ==
    {NoHeader, Hdr(BearerSp \o <<"a">>), Hdr(BearerSp \o <<"g">>),
     Hdr(BearerSp \o <<"x">>)}

FaultBodies(route) ==
    CASE route = "createUser" ->
            {NoBody} \cup
            {[NoBody EXCEPT !.email = "e1", !.password = "pw", !.role = ro] :
                ro \in {"admin", "teacher"}}
      [] route = "setRole" ->
            {NoBody, [NoBody EXCEPT !.uid = "G", !.role = "teacher"]} \cup
            {[NoBody EXCEPT !.uid = "U2", !.role = ro] : ro \in {"admin", "teacher"}}
      [] OTHER -> {NoBody}

ReceiveFault(r) ==
    /\ reqs[r].pc = "idle"
    /\ \E route \in Routes : \E hdr \in FaultHeaders : \E body \in FaultBodies(route) :
          Receive(r, route, hdr, body)

\* the resumption of request r, whatever await it is parked on
Resume(r) ==
    \/ VerifyIdToken(r)
    \/ AuthorizeRole(r)
    \/ AdminExists(r)
    \/ GetUserByEmail(r)
    \/ CreateAuthUser(r)
    \/ SetDoc(r)
    \/ UpdateRole(r)
    \/ GetProfile(r)
    \/ AwaitRejects(r)

NextFault ==
    \E r \in FaultReq :
        \/ ReceiveFault(r)
        \/ Resume(r)

SpecFault ==
    /\ Init
    /\ [][NextFault]_vars
    /\ \A r \in FaultReq : WF_vars(Resume(r))

(***************************************************************************)
(* Vocabulary of the claims.                                               *)
(***************************************************************************)
Done(q) == q.pc = "done"

\* the admin-conflict rejection of either guard
Conflict(q) ==
    /\ Done(q)
    /\ q.status = 403
    /\ q.error \in {"Only one admin is allowed", "An admin already exists"}

Succeeded(q) == Done(q) /\ q.stage = "handler" /\ q.status \in {200, 201}

\* the role each account has in Init
InitRole(u) ==
    CASE u = "A" -> "admin"
      [] u = "U2" -> "teacher"
      [] u = "U3" -> "student"
      [] OTHER -> ""

(***************************************************************************)
(* C1.  Invariant I2 under concurrency: in every reachable state of any    *)
(* interleaving of POST /createUser and POST /setRole requests, at most    *)
(* one account has role admin.                                             *)
(***************************************************************************)
C1_AtMostOneAdmin == Cardinality(Admins(accounts)) <= 1

(***************************************************************************)
(* C2.  Mutual exclusion of success: of the admin grants (to distinct      *)
(* accounts) that run concurrently from a state with no admin, exactly one *)
(* succeeds and all the others receive the admin-conflict rejection.       *)
(***************************************************************************)
\* the account a grant is for
Target(q) == IF q.route = "createUser" THEN UidOfEmail(q.body.email) ELSE q.body.uid

DistinctTargets == \A r1, r2 \in Req : r1 # r2 => Target(reqs[r1]) # Target(reqs[r2])

C2_ExactlyOneGrantSucceeds ==
    (DistinctTargets /\ \A r \in Req : Done(reqs[r])) =>
        /\ Cardinality({r \in Req : Succeeded(reqs[r])}) = 1
        /\ \A r \in Req : Succeeded(reqs[r]) \/ Conflict(reqs[r])

(***************************************************************************)
(* C3.  While A holds admin and no request has demoted A, every            *)
(* setRole(u, admin) that has been answered was answered with the          *)
(* admin-conflict 403, none is on its way to the write, and U2 and U3 have *)
(* the role they had before (or one a non-admin setRole gave them).        *)
(***************************************************************************)
ADemoted ==
    \E r \in Req :
        /\ Succeeded(reqs[r])
        /\ reqs[r].route = "setRole"
        /\ reqs[r].body.uid = "A"
        /\ reqs[r].body.role # "admin"

RoleKept(u) ==
    \/ accounts[u].role = InitRole(u)
    \/ \E r \in Req :
          /\ Succeeded(reqs[r])
          /\ reqs[r].route = "setRole"
          /\ reqs[r].body.uid = u
          /\ reqs[r].body.role # "admin"
          /\ accounts[u].role = reqs[r].body.role

C3_GrantsRefusedWhileAdmin ==
    ~ADemoted =>
        /\ accounts["A"].role = "admin"
        /\ \A r \in Req :
              (reqs[r].route = "setRole" /\ reqs[r].body.role = "admin") =>
                  /\ reqs[r].pc # "update"
                  /\ (Done(reqs[r]) /\ reqs[r].stage = "handler") =>
                        (reqs[r].status = 403 /\ reqs[r].error = "An admin already exists")
        /\ RoleKept("U2")
        /\ RoleKept("U3")

\* two finished grants, to U2 and to U3, both refused, A still admin
C3_Witness ==
    /\ ~ADemoted
    /\ accounts["A"].role = "admin"
    /\ \E r1, r2 \in Req :
          /\ r1 # r2
          /\ reqs[r1].route = "setRole" /\ reqs[r1].body.uid = "U2"
          /\ reqs[r1].body.role = "admin" /\ Conflict(reqs[r1])
          /\ reqs[r2].route = "setRole" /\ reqs[r2].body.uid = "U3"
          /\ reqs[r2].body.role = "admin" /\ Conflict(reqs[r2])
    /\ accounts["U2"].role = "teacher"
    /\ accounts["U3"].role = "student"

(***************************************************************************)
(* C4, as the claim states it.  On every route behind authenticate the     *)
(* handler is entered only out of authorizeRole's await, that is, after    *)
(* authenticate and then authorizeRole have called next().  GET /profile   *)
(* is registered with authenticate alone: its handler is entered out of    *)
(* authenticate's await.                                                   *)
(***************************************************************************)
C4_HandlerOnlyAfterAuthorizeRole ==
    [][\A r \in PipeReq :
          (reqs'[r].stage = "handler" /\ reqs[r].stage # "handler") =>
              reqs[r].pc = "authzGet"]_vars

(***************************************************************************)
(* C4, amended.  Pipeline ordering and short-circuit: a request enters     *)
(* authorizeRole only out of authenticate's await with a verified token;   *)
(* on the routes registered with authorizeRole (createUser, setRole, the   *)
(* two dashboards) it enters its handler only out of authorizeRole's await *)
(* with the required role stored for its uid, and on GET /profile only out *)
(* of authenticate's await with a verified token.  No step that leaves the *)
(* request in authenticate or authorizeRole, the rejecting step included,  *)
(* changes the accounts or the auth users; a rejection by authenticate     *)
(* answers 401, one by authorizeRole 403, and it ends the request: the     *)
(* slot's next step is the arrival of another request.                     *)
(***************************************************************************)
C4_Step(r) ==
    LET q == reqs[r]
        q2 == reqs'[r]
    IN  /\ (q2.stage = "authorizeRole" /\ q.stage # "authorizeRole") =>
              /\ q.pc = "verifyIdToken"
              /\ q2.user # NoUser
              /\ q2.user = TokenUid(IdToken(q.hdr).text)
        /\ (q2.stage = "handler" /\ q.stage # "handler") =>
              /\ q2.user # NoUser
              /\ q2.user = TokenUid(IdToken(q.hdr).text)
              /\ IF q.route = "profile"
                 THEN q.pc = "verifyIdToken"
                 ELSE /\ q.pc = "authzGet"
                      /\ accounts[q.user].exists
                      /\ accounts[q.user].role = RequiredRole(q.route)
        /\ (q2 # q /\ q2.stage \in {"authenticate", "authorizeRole"}) =>
              /\ accounts' = accounts
              /\ authUsers' = authUsers
        /\ (q2 # q /\ Done(q2) /\ q2.stage \in {"authenticate", "authorizeRole"}) =>
              q2.status = IF q2.stage = "authenticate" THEN 401 ELSE 403
        /\ (q2 # q /\ Done(q)) => q2.stage = "authenticate"

C4_PipelineOrder == [][\A r \in PipeReq : C4_Step(r)]_vars

\* a createUser of a teacher's client, rejected by authorizeRole, nothing written
C4_Witness ==
    \E r \in PipeReq :
        /\ Done(reqs[r])
        /\ reqs[r].stage = "authorizeRole"
        /\ reqs[r].status = 403
        /\ reqs[r].route = "createUser"
        /\ reqs[r].user = "U2"
        /\ reqs[r].body.email = "e1"
        /\ reqs[r].body.password = "pw"
        /\ reqs[r].body.role = "teacher"
        /\ "N1" \notin authUsers
        /\ ~accounts["N1"].exists

(***************************************************************************)
(* C5.  authenticate never authenticates a request whose Authorization     *)
(* header is absent, does not start with "Bearer ", or carries a token the *)
(* verifier fails on: req.user stays unset and the answer is 401.          *)
(***************************************************************************)
Unauthenticable(h) ==
    \/ ~h.present
    \/ ~StartsWith(h.text, BearerSp)
    \/ TokenUid(SubSeq(h.text, Len(BearerSp) + 1, Len(h.text))) = NoUser

C5_OnlyBearerAuthenticated ==
    \A r \in AuthReq :
        (reqs[r].pc # "idle" /\ Unauthenticable(reqs[r].hdr)) =>
            /\ reqs[r].user = NoUser
            /\ reqs[r].pc \in {"verifyIdToken", "done"}
            /\ Done(reqs[r]) => reqs[r].status = 401

(***************************************************************************)
(* C6.  Uniform rejection: any two requests that authenticate rejects get  *)
(* the same response, status and error body.                               *)
(***************************************************************************)
AuthRejected(q) == Done(q) /\ q.stage = "authenticate"

C6_UniformRejection ==
    \A r1, r2 \in AuthReq :
        (AuthRejected(reqs[r1]) /\ AuthRejected(reqs[r2])) =>
            /\ reqs[r1].status = reqs[r2].status
            /\ reqs[r1].error = reqs[r2].error

(***************************************************************************)
(* C7.  authorizeRole(required) continues to the handler if and only if    *)
(* the caller's uid has an account document whose role equals required;    *)
(* otherwise it answers 403 and ends the request.  An admin is not let     *)
(* into a teacher- or student-gated route.                                 *)
(***************************************************************************)
RoleMatches(q) ==
    accounts[q.user].exists /\ accounts[q.user].role = RequiredRole(q.route)

C7_Step(r) ==
    LET q == reqs[r]
        q2 == reqs'[r]
    IN  (q.pc = "authzGet" /\ q2 # q) =>
            IF RoleMatches(q)
            THEN q2.stage = "handler"
            ELSE Done(q2) /\ q2.stage = "authorizeRole" /\ q2.status = 403

C7_ExactRoleMatch == [][\A r \in PipeReq : C7_Step(r)]_vars

\* the admin, refused on the teacher dashboard
C7_Witness ==
    \E r \in PipeReq :
        /\ Done(reqs[r])
        /\ reqs[r].stage = "authorizeRole"
        /\ reqs[r].status = 403
        /\ reqs[r].route = "teacherDash"
        /\ reqs[r].user = "A"
        /\ accounts["A"].role = "admin"

(***************************************************************************)
(* C8.  A createUser with role admin that the admin guard refuses writes   *)
(* nothing: the refusing step comes out of the await of adminExists and    *)
(* changes neither the auth users nor the accounts, and whenever such a    *)
(* refused request is in the state, an auth user or an account for its     *)
(* e-mail is the write of another createUser request.                      *)
(***************************************************************************)
RefusedCreate(q) ==
    /\ q.route = "createUser"
    /\ Done(q)
    /\ q.status = 403
    /\ q.error = "Only one admin is allowed"

\* q has created the auth user for e-mail e
CreatedAuthUser(q, e) ==
    /\ q.route = "createUser"
    /\ q.body.email = e
    /\ q.pc = "set" \/ (Done(q) /\ q.status = 201)

\* q has written the account document for e-mail e
WroteDoc(q, e) ==
    /\ q.route = "createUser"
    /\ q.body.email = e
    /\ Done(q) /\ q.status = 201

C8_NothingOfItsOwn ==
    \A r \in Req :
        RefusedCreate(reqs[r]) =>
            LET e == reqs[r].body.email
            IN  /\ UidOfEmail(e) \in authUsers =>
                      \E r2 \in Req \ {r} : CreatedAuthUser(reqs[r2], e)
                /\ accounts[UidOfEmail(e)].exists =>
                      \E r2 \in Req \ {r} : WroteDoc(reqs[r2], e)

C8_Step(r) ==
    (RefusedCreate(reqs'[r]) /\ ~RefusedCreate(reqs[r])) =>
        /\ reqs[r].pc = "adminExists"
        /\ accounts' = accounts
        /\ authUsers' = authUsers

C8_RefusedCreateWritesNothing ==
    /\ []C8_NothingOfItsOwn
    /\ [][\A r \in Req : C8_Step(r)]_vars

\* a refused createUser of an admin, and no auth user or account for its e-mail
C8_Witness ==
    \E r \in Req :
        /\ RefusedCreate(reqs[r])
        /\ reqs[r].body.email = "e1"
        /\ "N1" \notin authUsers
        /\ ~accounts["N1"].exists

(***************************************************************************)
(* C9.  createUser is not idempotent: a createUser of an authorized admin  *)
(* for an e-mail that is already registered, with all fields present, is   *)
(* answered 400 "This email is already registered!" whatever role the      *)
(* payload carries.                                                        *)
(***************************************************************************)
\* the e-mails registered before any request arrives
RegisteredAtStart == {"a@x"}

C9_SecondCreateAlreadyExists ==
    \A r \in PipeReq :
        LET q == reqs[r]
        IN  ( /\ Done(q)
              /\ q.route = "createUser"
              /\ q.stage = "handler"
              /\ q.body.email \in RegisteredAtStart
              /\ q.body.password # ""
              /\ q.body.role # "" ) =>
                /\ q.status = 400
                /\ q.error = "This email is already registered!"

(***************************************************************************)
(* C10.  setRole on a uid that has no account document is answered 404.    *)
(***************************************************************************)
C10_SetRoleUnknownIs404 ==
    \A r \in PipeReq :
        LET q == reqs[r]
        IN  ( /\ Done(q)
              /\ q.route = "setRole"
              /\ q.stage = "handler"
              /\ q.body.uid # ""
              /\ q.body.role \notin {"", "admin"}
              /\ ~accounts[q.body.uid].exists ) =>
                q.status = 404

(***************************************************************************)
(* C11.  GET /profile answers a caller that has no account document with   *)
(* 404, never 403, and a caller that has one with 200 and the document     *)
(* keyed by the token's uid; the step changes neither the accounts nor the *)
(* auth users.                                                             *)
(***************************************************************************)
C11_Step(r) ==
    LET q == reqs[r]
        q2 == reqs'[r]
    IN  (q.pc = "profileGet" /\ q2 # q) =>
            /\ Done(q2)
            /\ q2.user = TokenUid(IdToken(q.hdr).text)
            /\ IF accounts[q.user].exists
               THEN /\ q2.status = 200
                    /\ q2.data.uid = q.user
                    /\ q2.data.doc = accounts[q.user]
               ELSE /\ q2.status = 404
                    /\ q2.data = NoData
            /\ accounts' = accounts
            /\ authUsers' = authUsers

C11_ProfileOwnRecordOr404 == [][\A r \in PipeReq : C11_Step(r)]_vars

\* the caller without a document has been answered 404
C11_Witness ==
    \E r \in PipeReq :
        /\ Done(reqs[r])
        /\ reqs[r].route = "profile"
        /\ reqs[r].user = "G"
        /\ ~accounts["G"].exists
        /\ reqs[r].status = 404

(***************************************************************************)
(* C12.  Frame of setRole: a successful setRole(uid, role) changes only    *)
(* the role of the account keyed by uid; every other account, the set of   *)
(* accounts and the auth users are unchanged.  No step of any request      *)
(* removes an existing account or changes its email or createdAt.          *)
(***************************************************************************)
C12_Step(r) ==
    LET q == reqs[r]
        q2 == reqs'[r]
    IN  (q.pc = "update" /\ Succeeded(q2)) =>
            /\ accounts[q.body.uid].exists
            /\ accounts' = [accounts EXCEPT ![q.body.uid].role = q.body.role]
            /\ authUsers' = authUsers

OnlyRoleChanges ==
    \A u \in Uids :
        accounts[u].exists =>
            /\ accounts'[u].exists
            /\ accounts'[u].email = accounts[u].email
            /\ accounts'[u].createdAt = accounts[u].createdAt

C12_FrameOfSetRole == [][OnlyRoleChanges /\ \A r \in Req : C12_Step(r)]_vars

\* U3 has been made a teacher and kept its email and createdAt
C12_Witness ==
    /\ \E r \in Req :
          /\ Succeeded(reqs[r])
          /\ reqs[r].route = "setRole"
          /\ reqs[r].body.uid = "U3"
          /\ reqs[r].body.role = "teacher"
    /\ accounts["U3"] = Doc("u3@x", "teacher", 0)
    /\ accounts["U2"] = Doc("u2@x", "teacher", 0)

(***************************************************************************)
(* C13.  Role domain: in every reachable state every account has a role    *)
(* among admin, teacher, student and unassigned.                           *)
(***************************************************************************)
RoleDomain == {"admin", "teacher", "student", "unassigned"}

C13_RoleDomain == \A u \in Uids : accounts[u].exists => accounts[u].role \in RoleDomain

(***************************************************************************)
(* C14.  createUser is all-or-nothing: once a createUser request has been  *)
(* answered and no other createUser for its e-mail is between its two      *)
(* writes, an auth user exists for the e-mail if and only if the account   *)
(* document {email, role, createdAt} exists for it.                        *)
(***************************************************************************)
BetweenWrites(e) ==
    \E r \in FaultReq :
        /\ reqs[r].route = "createUser"
        /\ reqs[r].body.email = e
        /\ reqs[r].pc = "set"

C14_AllOrNothing ==
    \A r \in FaultReq :
        LET q == reqs[r]
            e == q.body.email
        IN  ( /\ Done(q)
              /\ q.route = "createUser"
              /\ q.stage = "handler"
              /\ e # ""
              /\ ~BetweenWrites(e) ) =>
                (UidOfEmail(e) \in authUsers <=>
                    /\ accounts[UidOfEmail(e)].exists
                    /\ accounts[UidOfEmail(e)].email = e)

(***************************************************************************)
(* C15.  Every request admitted to the pipeline is eventually answered,    *)
(* and answered once: whether its awaits resolve or reject, it reaches a   *)
(* response; after the response nothing more happens to it; a status is    *)
(* set exactly when the response is sent; and every rejection carries one  *)
(* of the statuses 400, 401, 403, 404, 500.                                *)
(***************************************************************************)
Admitted(r) == reqs[r].pc # "idle"

RejectionStatuses == {400, 401, 403, 404, 500}

Classified(q) ==
    /\ Done(q) <=> q.status # 0
    /\ Done(q) => \/ Succeeded(q) /\ q.error = ""
                  \/ q.status \in RejectionStatuses /\ q.error # ""

AnsweredOnce(r) == Done(reqs[r]) => reqs'[r] = reqs[r]

C15_ExactlyOneResponse ==
    /\ \A r \in FaultReq : Admitted(r) ~> Done(reqs[r])
    /\ [][\A r \in FaultReq : AnsweredOnce(r)]_vars
    /\ [](\A r \in FaultReq : Classified(reqs[r]))

C15_Witness ==
    /\ reqs[1].route = "setRole"
    /\ reqs[1].status = 500
    /\ reqs[1].error = "store unavailable"
    /\ reqs[2].route = "createUser"
    /\ reqs[2].status = 500
    /\ reqs[2].error = "Internal Server Error"
    /\ "N1" \in authUsers

(***************************************************************************)
(* C16.  When requests run one at a time, the store never holds more than  *)
(* one admin, and every createUser or setRole that reaches the admin guard *)
(* while an admin exists is refused with the admin-conflict 403 and writes *)
(* nothing.                                                                *)
(***************************************************************************)
C16_Step(r) ==
    LET q == reqs[r]
        q2 == reqs'[r]
    IN  (q.pc = "adminExists" /\ q2 # q /\ Admins(accounts) # {}) =>
            /\ Conflict(q2)
            /\ q2.stage = "handler"
            /\ accounts' = accounts
            /\ authUsers' = authUsers

C16_SequentialSoundness ==
    /\ [](Cardinality(Admins(accounts)) <= 1)
    /\ [][\A r \in PipeReq : C16_Step(r)]_vars

\* after an earlier setRole changed U2 to student, a createUser of an admin is refused
C16_Witness ==
    /\ Conflict(reqs[1])
    /\ reqs[1].route = "createUser"
    /\ reqs[1].body.role = "admin"
    /\ accounts["U2"].role = "student"
    /\ Admins(accounts) = {"A"}
    /\ "N1" \notin authUsers

(***************************************************************************)
(* C17.  Authorization is not stale at commit: every step in which a       *)
(* createUser or setRole request writes to the store (auth-user creation,  *)
(* account-record set, role update) starts in a state where the caller's   *)
(* stored role is admin.                                                   *)
(***************************************************************************)
Commits(r) ==
    /\ reqs[r].pc \in {"createUser", "set", "update"}
    /\ reqs'[r] # reqs[r]
    /\ (accounts' # accounts \/ authUsers' # authUsers)

CallerIsAdmin(r) ==
    /\ accounts[reqs[r].user].exists
    /\ accounts[reqs[r].user].role = "admin"

C17_CallerAdminAtCommit ==
    [][\A r \in Req : Commits(r) => CallerIsAdmin(r)]_vars

(***************************************************************************)
(* C18.  A setRole(u, admin) whose guard runs while u is the sole admin is *)
(* answered with 403 "An admin already exists", the answer a grant to any  *)
(* other subject gets, and writes nothing: u stays the admin.              *)
(***************************************************************************)
RegrantAtGuard(r) ==
    /\ reqs[r].pc = "adminExists"
    /\ reqs[r].route = "setRole"
    /\ Admins(accounts) = {reqs[r].body.uid}
    /\ reqs'[r] # reqs[r]

C18_Step(r) ==
    RegrantAtGuard(r) =>
        /\ reqs'[r] = Respond(reqs[r], "handler", 403, "An admin already exists")
        /\ reqs'[r] = [setRoleGuard([reqs[r] EXCEPT !.body.uid = "U3"], accounts)
                          EXCEPT !.body = reqs[r].body]
        /\ accounts' = accounts
        /\ authUsers' = authUsers

C18_RegrantRefused == [][\A r \in Req : C18_Step(r)]_vars

C18_Witness ==
    \E r \in Req :
        /\ Conflict(reqs[r])
        /\ reqs[r].route = "setRole"
        /\ reqs[r].body.uid = "A"
        /\ reqs[r].body.role = "admin"
        /\ \A o \in Req \ {r} : reqs[o].pc = "idle"
        /\ Admins(accounts) = {"A"}

(***************************************************************************)
(* C19.  A setRole with a non-admin role never meets the admin guard, so   *)
(* the sole admin can be demoted, by itself too.  Once no account is admin *)
(* and no request that passed authorizeRole("admin") is still in flight,   *)
(* that stays so for ever: every createUser and setRole that reaches       *)
(* authorizeRole is answered 403 "Not authorized" there, and the number of *)
(* admins remains zero.                                                    *)
(***************************************************************************)
PastAuthorize(q) ==
    q.pc \in {"adminExists", "getUserByEmail", "createUser", "set", "update"}

Locked ==
    /\ Admins(accounts) = {}
    /\ \A r \in Req : ~PastAuthorize(reqs[r])

C19_Step(r) ==
    (reqs[r].pc = "authzGet" /\ reqs'[r] # reqs[r]) =>
        reqs'[r] = Respond(reqs[r], "authorizeRole", 403, "Not authorized")

UnguardedDemotion(q) ==
    (q.route = "setRole" /\ q.body.role # "admin") =>
        /\ q.pc # "adminExists"
        /\ ~Conflict(q)

C19_LockoutPermanent ==
    /\ [](\A r \in Req : UnguardedDemotion(reqs[r]))
    /\ [][Locked => (Locked' /\ \A r \in Req : C19_Step(r))]_vars

\* A has demoted itself, no admin is left, and a later createUser was turned away
C19_Witness ==
    /\ Locked
    /\ Succeeded(reqs[1])
    /\ reqs[1].route = "setRole"
    /\ reqs[1].user = "A"
    /\ reqs[1].body.uid = "A"
    /\ reqs[1].body.role = "teacher"
    /\ reqs[2].route = "createUser"
    /\ reqs[2].pc = "done"
    /\ reqs[2].stage = "authorizeRole"
    /\ reqs[2].status = 403
    /\ reqs[3].route = "setRole"
    /\ reqs[3].pc = "done"
    /\ reqs[3].stage = "authorizeRole"
    /\ reqs[3].status = 403

====
